---- MODULE Spec2Model ----
(***************************************************************************)
(* usque: the SOCKS command (cmd/socks.go), the root command (cmd/root.go) *)
(* and the configuration store (config/config.go).                         *)
(*                                                                         *)
(* Spec      the process: command dispatch, the Run body of every enabled  *)
(*           service, the tunnel supervisor and its Sessions.              *)
(* LiveSpec  Spec with the fairness of the Go scheduler and of time.       *)
(* SpecPump  the egress pump of one Session.                               *)
(* SpecConfig  SaveConfig and LoadConfig on the configuration file.        *)
(* SpecLoad  the program's own operations on the configuration.           *)
(* SpecOptions  the settings Run takes from flags and configuration.       *)
(***************************************************************************)
EXTENDS Integers, Sequences, FiniteSets, TLC

VARIABLES
    env,          \* what the run is given: command line and configuration contents
    ConfigLoaded, \* config.ConfigLoaded
    mainPc,       \* position of the main goroutine
    pc,           \* position of each service's Run
    failure,      \* why a Run returned
    localAddresses, \* the inner addresses Run collected
    stack,        \* the virtual TUN device / network stack of each Run
    nCreated,     \* how often each Run has created a stack
    conns,        \* open socket-face connections of each stack
    supDev,       \* the device handed to MaintainTunnel
    sup,          \* position of each tunnel supervisor
    sess,         \* the supervisor's current Session
    waited,       \* time slept since the last Session closed
    psess,        \* datapath: state of the Session the pumps belong to
    pktQ,         \* datapath: packets the stack offers on its packet face
    nextPkt,      \* datapath: number of the next packet the stack produces
    egress,       \* datapath: the egress pump
    emitted,      \* datapath: QUIC datagrams sent, per packet
    outcome,      \* datapath: what the pump did with each packet
    AppConfig,    \* config.AppConfig
    disk,         \* the configuration file
    given,        \* the configuration the run is asked to store
    hand,         \* the file the run's user writes by hand
    loadErr,      \* what the last LoadConfig / SaveConfig returned
    lastOp,       \* the last operation on the configuration
    savedFrom,    \* the configuration the file was last saved from
    cleared,      \* AppConfig was cleared since the file was written
    loadedOk,     \* history: some LoadConfig call has returned no error
    opt,          \* one setting of the run: its flag and its configuration field
    effective     \* the value Run uses for that setting

procVars == <<env, mainPc, pc, failure, localAddresses, stack, nCreated, conns,
              supDev, sup, sess, waited>>

pumpVars == <<psess, pktQ, nextPkt, egress, emitted, outcome>>

cfgVars == <<AppConfig, disk, given, hand, loadErr, lastOp, savedFrom, cleared, loadedOk>>

optVars == <<opt, effective>>

vars == <<ConfigLoaded, procVars, pumpVars, optVars, cfgVars, optVars>>

----------------------------------------------------------------------------
(* Bounds *)

MaxDelay == 2
MaxConns == 1
MaxPackets == 3
MaxStrLen == 2

----------------------------------------------------------------------------
(* config/config.go: the configuration and its JSON file *)

\* A Go string is a sequence of characters.  "BAD" stands for a byte that is
\* not valid UTF-8 and "REPL" for U+FFFD, which encoding/json puts in its place.
Chars == {"a", "<", "\"", "\\", "\n", "BAD"}

RECURSIVE SeqsUpTo(_, _)
SeqsUpTo(S, n) ==
    IF n = 0 THEN {<<>>}
    ELSE LET r == SeqsUpTo(S, n - 1)
         IN  r \cup {Append(x, c) : x \in {y \in r : Len(y) = n - 1}, c \in S}

StringVals == SeqsUpTo(Chars, MaxStrLen)

\* Password carrying the json tag of Username.
ProxyServerConfigFields_TagCopied ==
    { <<"BindAddress", "bind_address", "string">>,
      <<"Port", "port", "string">>,
      <<"Username", "username", "string">>,
      <<"Password", "username", "string">> }

\* The struct fields: <<Go name, json tag, Go type>>.
ProxyServerConfigFields ==
    { <<"BindAddress", "bind_address", "string">>,
      <<"Port", "port", "string">>,
      <<"Username", "username", "string">>,
      <<"Password", "password", "string">> }

TunnelConfigFields ==
    { <<"ConnectPort", "connect_port", "int">>,
      <<"DNS", "dns", "strings">>,
      <<"DNSTimeout", "dns_timeout", "duration">>,
      <<"UseIPv6", "use_ipv6", "bool">>,
      <<"NoTunnelIPv4", "no_tunnel_ipv4", "bool">>,
      <<"NoTunnelIPv6", "no_tunnel_ipv6", "bool">>,
      <<"SNIAddress", "sni_address", "string">>,
      <<"KeepalivePeriod", "keepalive_period", "duration">>,
      <<"MTU", "mtu", "int">>,
      <<"InitialPacketSize", "initial_packet_size", "uint16">>,
      <<"ReconnectDelay", "reconnect_delay", "duration">>,
      <<"ConnectionTimeout", "connection_timeout", "duration">>,
      <<"IdleTimeout", "idle_timeout", "duration">> }

ConfigFields ==
    { <<"PrivateKey", "private_key", "string">>,
      <<"EndpointV4", "endpoint_v4", "string">>,
      <<"EndpointV6", "endpoint_v6", "string">>,
      <<"EndpointPubKey", "endpoint_pub_key", "string">>,
      <<"License", "license", "string">>,
      <<"ID", "id", "string">>,
      <<"AccessToken", "access_token", "string">>,
      <<"IPv4", "ipv4", "string">>,
      <<"IPv6", "ipv6", "string">>,
      <<"Socks", "socks", "ProxyServerConfig">>,
      <<"HTTP", "http", "ProxyServerConfig">>,
      <<"Tunnel", "tunnel", "TunnelConfig">> }

StructTypes == {"ProxyServerConfig", "TunnelConfig"}

SubFields(ty) ==
    IF ty = "ProxyServerConfig" THEN ProxyServerConfigFields ELSE TunnelConfigFields

NilSlice == [nil |-> TRUE, items |-> <<>>]

\* The zero value of a Go type.
ZeroLeaf(ty) ==
    CASE ty = "string" -> <<>>
      [] ty \in {"int", "uint16", "duration"} -> 0
      [] ty = "bool" -> FALSE
      [] ty = "strings" -> NilSlice

ZeroStruct(fields) ==
    [g \in {f[1] : f \in fields} |->
        ZeroLeaf((CHOOSE f \in fields : f[1] = g)[3])]

\* Config{}
ZeroConfig ==
    [g \in {f[1] : f \in ConfigFields} |->
        LET ty == (CHOOSE f \in ConfigFields : f[1] = g)[3]
        IN  IF ty \in StructTypes THEN ZeroStruct(SubFields(ty)) ELSE ZeroLeaf(ty)]

(* encoding/json, as the Encoder of SaveConfig and the Decoder of LoadConfig use it *)

DigitChars == <<"0", "1", "2", "3", "4", "5", "6", "7", "8", "9">>

IsDigit(c) == \E d \in 1..10 : DigitChars[d] = c

DigitVal(c) == (CHOOSE d \in 1..10 : DigitChars[d] = c) - 1

RECURSIVE FormatNat(_)
FormatNat(n) ==
    IF n < 10 THEN <<DigitChars[n + 1]>>
    ELSE Append(FormatNat(n \div 10), DigitChars[(n % 10) + 1])

\* An integer printed in decimal.
FormatInt(n) == IF n < 0 THEN <<"-">> \o FormatNat(0 - n) ELSE FormatNat(n)

RECURSIVE ParseNat(_)
ParseNat(text) ==
    IF text = <<>> THEN 0
    ELSE ParseNat(SubSeq(text, 1, Len(text) - 1)) * 10 + DigitVal(text[Len(text)])

IsNatText(text) == text # <<>> /\ \A i \in 1..Len(text) : IsDigit(text[i])

IsIntText(text) ==
    \/ IsNatText(text)
    \/ Len(text) > 1 /\ text[1] = "-" /\ IsNatText(Tail(text))

ParseInt(text) ==
    IF text[1] = "-" THEN 0 - ParseNat(Tail(text)) ELSE ParseNat(text)

\* The Encoder escapes the quote, the backslash, control characters and
\* (escapeHTML is on) <, > and &; a byte that is not UTF-8 becomes U+FFFD.
EscapeChar(c) ==
    CASE c = "\"" -> <<"\\", "\"">>
      [] c = "\\" -> <<"\\", "\\">>
      [] c = "\n" -> <<"\\", "n">>
      [] c = "<" -> <<"\\", "u", "0", "0", "3", "c">>
      [] c = "BAD" -> <<"\\", "u", "f", "f", "f", "d">>
      [] OTHER -> <<c>>

RECURSIVE Escape(_)
Escape(s) == IF s = <<>> THEN <<>> ELSE EscapeChar(Head(s)) \o Escape(Tail(s))

HexRune(h) ==
    IF h = <<"0", "0", "3", "c">> THEN "<"
    ELSE IF h = <<"f", "f", "f", "d">> THEN "REPL"
    ELSE "?"

UnescapeChar(e) == IF e = "n" THEN "\n" ELSE e

\* The Decoder's unquote.
RECURSIVE Unquote(_)
Unquote(text) ==
    IF text = <<>> THEN <<>>
    ELSE IF Head(text) = "\\"
      THEN IF text[2] = "u"
             THEN <<HexRune(SubSeq(text, 3, 6))>> \o Unquote(SubSeq(text, 7, Len(text)))
             ELSE <<UnescapeChar(text[2])>> \o Unquote(SubSeq(text, 3, Len(text)))
      ELSE <<Head(text)>> \o Unquote(Tail(text))

\* JSON values: a type and its text or parts.
JNull == [t |-> "null", v |-> <<>>]

JStr(text) == [t |-> "str", v |-> text]

JNum(text) == [t |-> "num", v |-> text]

\* Marshal of a field that is no struct.
EncodeLeaf(ty, x) ==
    CASE ty = "string" -> JStr(Escape(x))
      [] ty \in {"int", "uint16", "duration"} -> JNum(FormatInt(x))
      [] ty = "bool" -> [t |-> "bool", v |-> x]
      [] ty = "strings" ->
           IF x.nil THEN JNull
           ELSE [t |-> "arr",
                 v |-> [i \in 1..Len(x.items) |-> JStr(Escape(x.items[i]))]]

EncodeStruct(fields, x) ==
    [k \in {f[2] : f \in fields} |->
        LET f == CHOOSE f \in fields : f[2] = k
        IN  EncodeLeaf(f[3], x[f[1]])]

\* encoder.Encode(AppConfig): one member per field, under its json tag.
EncodeConfig(c) ==
    [k \in {f[2] : f \in ConfigFields} |->
        LET f == CHOOSE f \in ConfigFields : f[2] = k
        IN  IF f[3] \in StructTypes
              THEN [t |-> "obj", v |-> EncodeStruct(SubFields(f[3]), c[f[1]])]
              ELSE EncodeLeaf(f[3], c[f[1]])]

\* Unmarshal of one JSON value into a field that is no struct: null leaves
\* the field as it is; a value of another JSON type is an UnmarshalTypeError
\* and leaves the field as it is.  time.Duration is an int64 to the Decoder.
DecodeLeaf(ty, jv, cur) ==
    IF jv.t = "null" THEN [ok |-> TRUE, v |-> IF ty = "strings" THEN NilSlice ELSE cur]
    ELSE CASE ty = "string" ->
                IF jv.t = "str" THEN [ok |-> TRUE, v |-> Unquote(jv.v)]
                ELSE [ok |-> FALSE, v |-> cur]
           [] ty \in {"int", "duration"} ->
                IF jv.t = "num" /\ IsIntText(jv.v)
                  THEN [ok |-> TRUE, v |-> ParseInt(jv.v)]
                  ELSE [ok |-> FALSE, v |-> cur]
           [] ty = "uint16" ->
                IF jv.t = "num" /\ IsNatText(jv.v) /\ Len(jv.v) <= 5
                      /\ ParseNat(jv.v) <= 65535
                  THEN [ok |-> TRUE, v |-> ParseNat(jv.v)]
                  ELSE [ok |-> FALSE, v |-> cur]
           [] ty = "bool" ->
                IF jv.t = "bool" THEN [ok |-> TRUE, v |-> jv.v]
                ELSE [ok |-> FALSE, v |-> cur]
           [] ty = "strings" ->
                IF jv.t = "arr" /\ \A i \in DOMAIN jv.v : jv.v[i].t = "str"
                  THEN [ok |-> TRUE,
                        v |-> [nil |-> FALSE,
                               items |-> [i \in DOMAIN jv.v |-> Unquote(jv.v[i].v)]]]
                  ELSE [ok |-> FALSE, v |-> cur]

\* A member is decoded into the field that carries its name as json tag; a
\* field without a member is left as it is.
DecodeStruct(fields, obj, cur) ==
    LET res(f) == IF f[2] \in DOMAIN obj
                    THEN DecodeLeaf(f[3], obj[f[2]], cur[f[1]])
                    ELSE [ok |-> TRUE, v |-> cur[f[1]]]
    IN  [ok |-> \A f \in fields : res(f).ok,
         v |-> [g \in {f[1] : f \in fields} |->
                    res(CHOOSE f \in fields : f[1] = g).v]]

\* decoder.Decode(&AppConfig)
DecodeConfig(obj, cur) ==
    LET res(f) ==
          IF f[2] \notin DOMAIN obj THEN [ok |-> TRUE, v |-> cur[f[1]]]
          ELSE IF f[3] \in StructTypes
            THEN IF obj[f[2]].t = "obj"
                   THEN DecodeStruct(SubFields(f[3]), obj[f[2]].v, cur[f[1]])
                   ELSE [ok |-> obj[f[2]].t = "null", v |-> cur[f[1]]]
            ELSE DecodeLeaf(f[3], obj[f[2]], cur[f[1]])
    IN  [ok |-> \A f \in ConfigFields : res(f).ok,
         v |-> [g \in {f[1] : f \in ConfigFields} |->
                    res(CHOOSE f \in ConfigFields : f[1] = g).v]]

NoFile == [kind |-> "missing", obj |-> <<>>]

MalformedFile == [kind |-> "malformed", obj |-> <<>>]

NotSaved == [has |-> FALSE, cfg |-> ZeroConfig]

\* The configuration store at rest (outside SpecConfig).
CfgIdle ==
    /\ AppConfig = ZeroConfig
    /\ disk = NoFile
    /\ given = ZeroConfig
    /\ hand = NoFile
    /\ loadErr = "none"
    /\ lastOp = "none"
    /\ savedFrom = NotSaved
    /\ cleared = FALSE
    /\ loadedOk = ConfigLoaded

----------------------------------------------------------------------------
(* Services *)

socksCmd == "socks"

\* httpProxyCmd.Run is called by the root command; it is taken to follow the
\* steps of socksCmd.Run with its own stack, supervisor and listener.
httpProxyCmd == "http"

Services == {socksCmd, httpProxyCmd}

NoStack == [created |-> FALSE, id |-> [svc |-> "none", gen |-> 0],
            addrs |-> {}, closed |-> FALSE]

NoSession == [state |-> "None", reason |-> "none",
              dev |-> [svc |-> "none", gen |-> 0]]

\* Default of the reconnect-delay flag, in seconds.
DefaultReconnectDelay == 1

\* `usque socks [flags]`: the flags are parsed from the command line.
\* `usque`: rootCmd.Run calls the services' Run directly, so their flags
\* hold their defaults.  Socks.Enabled / HTTP.Enabled are read by rootCmd.Run only.
Envs ==
    [entry : {"socks"},
     socksEnabled : {FALSE}, httpEnabled : {FALSE},
     privKeyOk : BOOLEAN, pubKeyOk : BOOLEAN,
     noTunnelIPv4 : BOOLEAN, noTunnelIPv6 : BOOLEAN,
     reconnectDelay : 1..MaxDelay]
    \cup
    [entry : {"root"},
     socksEnabled : BOOLEAN, httpEnabled : BOOLEAN,
     privKeyOk : BOOLEAN, pubKeyOk : BOOLEAN,
     noTunnelIPv4 : {FALSE}, noTunnelIPv6 : {FALSE},
     reconnectDelay : {DefaultReconnectDelay}]

Packets == 1..MaxPackets

NoPacket == [id |-> 0, len |-> 0]

\* The datapath at rest (outside SpecPump).
PumpIdle ==
    /\ psess = "Connected"
    /\ pktQ = <<>>
    /\ nextPkt = 1
    /\ egress = [pc |-> "read", cur |-> NoPacket, last |-> 0]
    /\ emitted = [p \in Packets |-> 0]
    /\ outcome = [p \in Packets |-> "none"]

\* No setting has been read yet.
NoOption == [name |-> "none"]

Unresolved == [done |-> FALSE]

OptIdle ==
    /\ opt = NoOption
    /\ effective = Unresolved

\* The process before its first step.
ProcAtStart ==
    /\ mainPc = "prerun"
    /\ pc = [s \in Services |-> "off"]
    /\ failure = [s \in Services |-> "none"]
    /\ localAddresses = [s \in Services |-> {}]
    /\ stack = [s \in Services |-> NoStack]
    /\ nCreated = [s \in Services |-> 0]
    /\ conns = [s \in Services |-> 0]
    /\ supDev = [s \in Services |-> [svc |-> "none", gen |-> 0]]
    /\ sup = [s \in Services |-> "none"]
    /\ sess = [s \in Services |-> NoSession]
    /\ waited = [s \in Services |-> 0]

Init ==
    /\ ConfigLoaded = FALSE
    /\ PumpIdle
    /\ CfgIdle
    /\ OptIdle
    /\ env \in Envs
    /\ ProcAtStart

\* The process lives until the main goroutine returns.
alive == mainPc # "exited"

----------------------------------------------------------------------------
(* cmd/root.go *)

\* PersistentPreRun: LoadConfig(configPath); an error is logged, not fatal.
PersistentPreRun ==
    /\ mainPc = "prerun"
    /\ \E ok \in BOOLEAN : ConfigLoaded' = ok /\ loadedOk' = ok
    /\ mainPc' = "run"
    /\ UNCHANGED <<pumpVars, optVars, env, pc, failure, localAddresses, stack, nCreated, conns,
                   supDev, sup, sess, waited,
                   AppConfig, disk, given, hand, loadErr, lastOp, savedFrom, cleared>>

\* `usque socks`: cobra runs socksCmd.Run on the main goroutine.
ExecuteSocks ==
    /\ mainPc = "run"
    /\ env.entry = "socks"
    /\ pc' = [pc EXCEPT ![socksCmd] = "start"]
    /\ mainPc' = "wait"
    /\ UNCHANGED <<pumpVars, cfgVars, optVars, env, ConfigLoaded, failure, localAddresses, stack, nCreated,
                   conns, supDev, sup, sess, waited>>

Enabled(s) == IF s = socksCmd THEN env.socksEnabled ELSE env.httpEnabled

\* rootCmd.Run: one goroutine per enabled service, then wg.Wait().
RootRun ==
    /\ mainPc = "run"
    /\ env.entry = "root"
    /\ IF ~ConfigLoaded
         THEN /\ mainPc' = "exited"
              /\ pc' = pc
         ELSE /\ pc' = [s \in Services |-> IF Enabled(s) THEN "start" ELSE "off"]
              /\ mainPc' = IF \E s \in Services : Enabled(s) THEN "wait" ELSE "exited"
    /\ UNCHANGED <<pumpVars, cfgVars, optVars, env, ConfigLoaded, failure, localAddresses, stack, nCreated,
                   conns, supDev, sup, sess, waited>>

\* wg.Wait() returns (or socksCmd.Run returns to cobra) and main ends.
MainReturn ==
    /\ mainPc = "wait"
    /\ \A s \in Services : pc[s] \in {"off", "returned"}
    /\ mainPc' = "exited"
    /\ UNCHANGED <<pumpVars, cfgVars, optVars, env, ConfigLoaded, pc, failure, localAddresses, stack,
                   nCreated, conns, supDev, sup, sess, waited>>

----------------------------------------------------------------------------
(* cmd/socks.go: socksCmd.Run *)

Return(s, why) ==
    /\ pc' = [pc EXCEPT ![s] = "returned"]
    /\ failure' = [failure EXCEPT ![s] = why]

\* The check of line 29 left out.
ConfigLoadedCheck_Dropped == TRUE

\* if !config.ConfigLoaded { ...; return }
ConfigLoadedCheck == ConfigLoaded

RunCheckLoaded(s) ==
    /\ alive /\ pc[s] = "start"
    /\ IF ~ConfigLoadedCheck
         THEN Return(s, "notLoaded")
         ELSE /\ pc' = [pc EXCEPT ![s] = "keys"]
              /\ failure' = failure
    /\ UNCHANGED <<pumpVars, cfgVars, optVars, env, ConfigLoaded, mainPc, localAddresses, stack, nCreated,
                   conns, supDev, sup, sess, waited>>

\* GetEcPrivateKey, GetEcEndpointPublicKey: each error returns.
RunKeys(s) ==
    /\ alive /\ pc[s] = "keys"
    /\ IF ~env.privKeyOk THEN Return(s, "privKey")
       ELSE IF ~env.pubKeyOk THEN Return(s, "pubKey")
       ELSE /\ pc' = [pc EXCEPT ![s] = "cert"]
            /\ failure' = failure
    /\ UNCHANGED <<pumpVars, cfgVars, optVars, env, ConfigLoaded, mainPc, localAddresses, stack, nCreated,
                   conns, supDev, sup, sess, waited>>

\* internal.GenerateCert, api.PrepareTlsConfig: each error returns.
RunCert(s) ==
    /\ alive /\ pc[s] = "cert"
    /\ \E r \in {"ok", "cert", "tls"} :
         IF r = "ok"
           THEN /\ pc' = [pc EXCEPT ![s] = "addrs"]
                /\ failure' = failure
           ELSE Return(s, r)
    /\ UNCHANGED <<pumpVars, cfgVars, optVars, env, ConfigLoaded, mainPc, localAddresses, stack, nCreated,
                   conns, supDev, sup, sess, waited>>

\* localAddresses: the inner IPv4 address unless no-tunnel-ipv4, the inner
\* IPv6 address unless no-tunnel-ipv6.
LocalAddresses ==
    (IF ~env.noTunnelIPv4 THEN {"v4"} ELSE {}) \cup
    (IF ~env.noTunnelIPv6 THEN {"v6"} ELSE {})

\* Lines 118-162: collect the inner addresses and the DNS servers; an address
\* that does not parse returns.
RunAddrs(s) ==
    /\ alive /\ pc[s] = "addrs"
    /\ \E parsed \in BOOLEAN :
         IF parsed
           THEN /\ localAddresses' = [localAddresses EXCEPT ![s] = LocalAddresses]
                /\ pc' = [pc EXCEPT ![s] = "tun"]
                /\ failure' = failure
           ELSE /\ Return(s, "parse")
                /\ localAddresses' = localAddresses
    /\ UNCHANGED <<pumpVars, cfgVars, optVars, env, ConfigLoaded, mainPc, stack, nCreated, conns, supDev,
                   sup, sess, waited>>

\* netstack.CreateNetTUN(localAddresses, dnsAddrs, mtu); defer tunDev.Close().
\* Run itself does not look at the address list: whether the call fails is
\* the library's answer, taken here as open for every list.
RunCreateNetTUN(s) ==
    /\ alive /\ pc[s] = "tun"
    /\ \E err \in BOOLEAN :
         IF err
           THEN /\ Return(s, "tun")
                /\ UNCHANGED <<stack, nCreated>>
           ELSE /\ nCreated' = [nCreated EXCEPT ![s] = @ + 1]
                /\ stack' = [stack EXCEPT ![s] =
                       [created |-> TRUE,
                        id |-> [svc |-> s, gen |-> nCreated[s] + 1],
                        addrs |-> localAddresses[s],
                        closed |-> FALSE]]
                /\ pc' = [pc EXCEPT ![s] = "maintain"]
                /\ failure' = failure
    /\ UNCHANGED <<pumpVars, cfgVars, optVars, env, ConfigLoaded, mainPc, localAddresses, conns, supDev,
                   sup, sess, waited>>

\* An adapter over a device other than the one CreateNetTUN returned.
TunnelDeviceArg_Fresh(s) == [svc |-> s, gen |-> nCreated[s] + 1]

\* api.NewNetstackAdapter(tunDev): the device argument of MaintainTunnel.
TunnelDeviceArg(s) == stack[s].id

\* go api.MaintainTunnel(context.Background(), ..., reconnectDelay)
RunMaintainTunnel(s) ==
    /\ alive /\ pc[s] = "maintain"
    /\ supDev' = [supDev EXCEPT ![s] = TunnelDeviceArg(s)]
    /\ sup' = [sup EXCEPT ![s] = "loop"]
    /\ pc' = [pc EXCEPT ![s] = "serve"]
    /\ UNCHANGED <<pumpVars, cfgVars, optVars, env, ConfigLoaded, mainPc, failure, localAddresses, stack,
                   nCreated, conns, sess, waited>>

\* server.ListenAndServe: binds and serves, or fails to bind.
RunListenAndServe(s) ==
    /\ alive /\ pc[s] = "serve"
    /\ pc' = [pc EXCEPT ![s] = "listening"]
    /\ UNCHANGED <<pumpVars, cfgVars, optVars, env, ConfigLoaded, mainPc, failure, localAddresses, stack,
                   nCreated, conns, supDev, sup, sess, waited>>

\* ListenAndServe returns an error (at bind, or later): Run returns and the
\* deferred tunDev.Close() runs.
ServeError(s) ==
    /\ alive /\ pc[s] \in {"serve", "listening"}
    /\ Return(s, "listen")
    /\ stack' = [stack EXCEPT ![s].closed = TRUE]
    /\ UNCHANGED <<pumpVars, cfgVars, optVars, env, ConfigLoaded, mainPc, localAddresses, nCreated, conns,
                   supDev, sup, sess, waited>>

\* The proxy serves a client: dial := tunNet.DialContext(ctx, network, addr).
Dial(s) ==
    /\ alive /\ pc[s] = "listening"
    /\ conns[s] < MaxConns
    /\ conns' = [conns EXCEPT ![s] = @ + 1]
    /\ UNCHANGED <<pumpVars, cfgVars, optVars, env, ConfigLoaded, mainPc, pc, failure, localAddresses,
                   stack, nCreated, supDev, sup, sess, waited>>

\* A proxied connection ends (closed by a peer, or timed out).
ConnEnd(s) ==
    /\ alive /\ conns[s] > 0
    /\ conns' = [conns EXCEPT ![s] = @ - 1]
    /\ UNCHANGED <<pumpVars, cfgVars, optVars, env, ConfigLoaded, mainPc, pc, failure, localAddresses,
                   stack, nCreated, supDev, sup, sess, waited>>

----------------------------------------------------------------------------
(* The tunnel supervisor (api.MaintainTunnel) and its Session *)

\* The context Run passes to MaintainTunnel is context.Background(): it is
\* never cancelled.
CtxDone(s) == FALSE

\* The delay argument shortened (half of the flag's value passed).
ReconnectDelayArg_Halved == env.reconnectDelay \div 2

\* reconnectDelay, the value of the reconnect-delay flag, as passed to
\* MaintainTunnel.
ReconnectDelayArg == env.reconnectDelay

\* A TLS pin mismatch classified as a transport failure and retried.
Fatal_PinRetried(r) == r = "auth"

Fatal(r) == r \in {"pin", "auth"}

Retryable(r) == r \in {"idle", "transport", "refused"}

Active(s) == sess[s].state \in {"Dialing", "Connected", "Draining"}

NewSession(s) == [state |-> "Dialing", reason |-> "none", dev |-> supDev[s]]

\* Loop step 1, first pass: construct a Session.
SupConstruct(s) ==
    /\ alive /\ sup[s] = "loop"
    /\ sess' = [sess EXCEPT ![s] = NewSession(s)]
    /\ sup' = [sup EXCEPT ![s] = "running"]
    /\ UNCHANGED <<pumpVars, cfgVars, optVars, env, ConfigLoaded, mainPc, pc, failure, localAddresses,
                   stack, nCreated, conns, supDev, waited>>

\* Establishment succeeds: handshake with the pinned key, 2xx to CONNECT-IP.
DialSucceed(s) ==
    /\ alive /\ sess[s].state = "Dialing"
    /\ sess' = [sess EXCEPT ![s].state = "Connected"]
    /\ UNCHANGED <<pumpVars, cfgVars, optVars, env, ConfigLoaded, mainPc, pc, failure, localAddresses,
                   stack, nCreated, conns, supDev, sup, waited>>

\* Establishment fails: connection refused, handshake timeout, TLS pin
\* mismatch, or an authentication failure answered to CONNECT-IP.
DialFail(s) ==
    /\ alive /\ sess[s].state = "Dialing"
    /\ \E r \in {"refused", "transport", "pin", "auth"} :
         sess' = [sess EXCEPT ![s].state = "Closed", ![s].reason = r]
    /\ UNCHANGED <<pumpVars, cfgVars, optVars, env, ConfigLoaded, mainPc, pc, failure, localAddresses,
                   stack, nCreated, conns, supDev, sup, waited>>

\* A Connected Session ends on a transport error or on idle timeout.
SessionFault(s) ==
    /\ alive /\ sess[s].state = "Connected"
    /\ \E r \in {"idle", "transport"} :
         sess' = [sess EXCEPT ![s].state = "Draining", ![s].reason = r]
    /\ UNCHANGED <<pumpVars, cfgVars, optVars, env, ConfigLoaded, mainPc, pc, failure, localAddresses,
                   stack, nCreated, conns, supDev, sup, waited>>

SessionClosed(s) ==
    /\ alive /\ sess[s].state = "Draining"
    /\ sess' = [sess EXCEPT ![s].state = "Closed"]
    /\ UNCHANGED <<pumpVars, cfgVars, optVars, env, ConfigLoaded, mainPc, pc, failure, localAddresses,
                   stack, nCreated, conns, supDev, sup, waited>>

\* Loop steps 2 and 3: the Session has reached Closed; exit on a cancelled
\* context or a fatal closure, otherwise start waiting reconnect_delay.
SupObserve(s) ==
    /\ alive /\ sup[s] = "running" /\ sess[s].state = "Closed"
    /\ IF CtxDone(s) \/ Fatal(sess[s].reason)
         THEN /\ sup' = [sup EXCEPT ![s] = "exited"]
              /\ waited' = waited
         ELSE /\ sup' = [sup EXCEPT ![s] = "waiting"]
              /\ waited' = [waited EXCEPT ![s] = 0]
    /\ UNCHANGED <<pumpVars, cfgVars, optVars, env, ConfigLoaded, mainPc, pc, failure, localAddresses,
                   stack, nCreated, conns, supDev, sess>>

\* One second of the supervisor's sleep passes.
Tick(s) ==
    /\ alive /\ sup[s] = "waiting"
    /\ waited[s] < ReconnectDelayArg
    /\ waited' = [waited EXCEPT ![s] = @ + 1]
    /\ UNCHANGED <<pumpVars, cfgVars, optVars, env, ConfigLoaded, mainPc, pc, failure, localAddresses,
                   stack, nCreated, conns, supDev, sup, sess>>

\* The sleep is over: back to loop step 1.
SupReconnect(s) ==
    /\ alive /\ sup[s] = "waiting"
    /\ waited[s] >= ReconnectDelayArg
    /\ sess' = [sess EXCEPT ![s] = NewSession(s)]
    /\ sup' = [sup EXCEPT ![s] = "running"]
    /\ UNCHANGED <<pumpVars, cfgVars, optVars, env, ConfigLoaded, mainPc, pc, failure, localAddresses,
                   stack, nCreated, conns, supDev, waited>>

----------------------------------------------------------------------------

Next ==
    \/ PersistentPreRun
    \/ ExecuteSocks
    \/ RootRun
    \/ MainReturn
    \/ \E s \in Services : RunCheckLoaded(s)
    \/ \E s \in Services : RunKeys(s)
    \/ \E s \in Services : RunCert(s)
    \/ \E s \in Services : RunAddrs(s)
    \/ \E s \in Services : RunCreateNetTUN(s)
    \/ \E s \in Services : RunMaintainTunnel(s)
    \/ \E s \in Services : RunListenAndServe(s)
    \/ \E s \in Services : ServeError(s)
    \/ \E s \in Services : Dial(s)
    \/ \E s \in Services : ConnEnd(s)
    \/ \E s \in Services : SupConstruct(s)
    \/ \E s \in Services : DialSucceed(s)
    \/ \E s \in Services : DialFail(s)
    \/ \E s \in Services : SessionFault(s)
    \/ \E s \in Services : SessionClosed(s)
    \/ \E s \in Services : SupObserve(s)
    \/ \E s \in Services : Tick(s)
    \/ \E s \in Services : SupReconnect(s)

Spec == Init /\ [][Next]_vars

\* Goroutines that can run are run, Sessions that drain close, time passes.
Fairness ==
    \A s \in Services :
        /\ WF_vars(SessionClosed(s))
        /\ WF_vars(SupObserve(s))
        /\ WF_vars(Tick(s))
        /\ WF_vars(SupReconnect(s))

LiveSpec == Spec /\ Fairness

----------------------------------------------------------------------------
(* The datapath of one Session: the egress pump (stack -> wire) *)

\* Default of the mtu flag, passed to CreateNetTUN and to MaintainTunnel.
Mtu == 1280

PacketLens == {576, Mtu, Mtu + 1}

\* Everything of the process is at rest while the datapath is examined.
ProcAtRest ==
    /\ env = [entry |-> "socks", socksEnabled |-> FALSE, httpEnabled |-> FALSE,
              privKeyOk |-> TRUE, pubKeyOk |-> TRUE,
              noTunnelIPv4 |-> FALSE, noTunnelIPv6 |-> FALSE,
              reconnectDelay |-> DefaultReconnectDelay]
    /\ mainPc = "wait"
    /\ pc = [s \in Services |-> IF s = socksCmd THEN "listening" ELSE "off"]
    /\ failure = [s \in Services |-> "none"]
    /\ localAddresses = [s \in Services |-> IF s = socksCmd THEN {"v4", "v6"} ELSE {}]
    /\ stack = [s \in Services |->
                  IF s = socksCmd
                    THEN [created |-> TRUE, id |-> [svc |-> s, gen |-> 1],
                          addrs |-> {"v4", "v6"}, closed |-> FALSE]
                    ELSE NoStack]
    /\ nCreated = [s \in Services |-> IF s = socksCmd THEN 1 ELSE 0]
    /\ conns = [s \in Services |-> 0]
    /\ supDev = [s \in Services |->
                  IF s = socksCmd THEN [svc |-> s, gen |-> 1]
                                  ELSE [svc |-> "none", gen |-> 0]]
    /\ sup = [s \in Services |-> IF s = socksCmd THEN "running" ELSE "none"]
    /\ sess = [s \in Services |->
                  IF s = socksCmd
                    THEN [state |-> "Connected", reason |-> "none",
                          dev |-> [svc |-> s, gen |-> 1]]
                    ELSE NoSession]
    /\ waited = [s \in Services |-> 0]

InitPump == ConfigLoaded = TRUE /\ PumpIdle /\ CfgIdle /\ OptIdle /\ ProcAtRest

\* The virtual stack produces an outbound IP packet.
StackEmit ==
    /\ nextPkt <= MaxPackets
    /\ \E l \in PacketLens : pktQ' = Append(pktQ, [id |-> nextPkt, len |-> l])
    /\ nextPkt' = nextPkt + 1
    /\ UNCHANGED <<ConfigLoaded, procVars, cfgVars, optVars, psess, egress, emitted, outcome>>

\* One iteration begins: PacketFace.Read returns the next packet.
EgressRead ==
    /\ egress.pc = "read"
    /\ psess = "Connected"
    /\ pktQ # <<>>
    /\ egress' = [egress EXCEPT !.pc = "send", !.cur = Head(pktQ)]
    /\ pktQ' = Tail(pktQ)
    /\ outcome' = [outcome EXCEPT ![Head(pktQ).id] = "accepted"]
    /\ UNCHANGED <<ConfigLoaded, procVars, cfgVars, optVars, psess, nextPkt, emitted>>

\* The same datagram sent a second time.
SendDatagram_Twice(p) == [emitted EXCEPT ![p] = @ + 2]

\* One QUIC datagram carrying packet p goes out.
SendDatagram(p) == [emitted EXCEPT ![p] = @ + 1]

\* The iteration ends: a packet longer than the datagram MTU is dropped; a
\* send that fails because the Session is closing ends the pump; a send that
\* fails on congestion drops the packet and the pump goes on.
EgressSend ==
    /\ egress.pc = "send"
    /\ LET p == egress.cur.id IN
       \/ /\ egress.cur.len > Mtu
          /\ outcome' = [outcome EXCEPT ![p] = "oversize"]
          /\ egress' = [pc |-> "read", cur |-> NoPacket, last |-> p]
          /\ emitted' = emitted
       \/ /\ egress.cur.len <= Mtu
          /\ psess # "Connected"
          /\ outcome' = [outcome EXCEPT ![p] = "closed"]
          /\ egress' = [pc |-> "stopped", cur |-> NoPacket, last |-> p]
          /\ emitted' = emitted
       \/ /\ egress.cur.len <= Mtu
          /\ psess = "Connected"
          /\ outcome' = [outcome EXCEPT ![p] = "congested"]
          /\ egress' = [pc |-> "read", cur |-> NoPacket, last |-> p]
          /\ emitted' = emitted
       \/ /\ egress.cur.len <= Mtu
          /\ psess = "Connected"
          /\ outcome' = [outcome EXCEPT ![p] = "sent"]
          /\ egress' = [pc |-> "read", cur |-> NoPacket, last |-> p]
          /\ emitted' = SendDatagram(p)
    /\ UNCHANGED <<ConfigLoaded, procVars, cfgVars, optVars, psess, pktQ, nextPkt>>

\* The pump waiting in Read learns that the Session is over.
EgressStop ==
    /\ egress.pc = "read"
    /\ psess # "Connected"
    /\ egress' = [egress EXCEPT !.pc = "stopped"]
    /\ UNCHANGED <<ConfigLoaded, procVars, cfgVars, optVars, psess, pktQ, nextPkt, emitted, outcome>>

\* The Session leaves Connected (error, idle timeout) and then closes.
PumpSessionLeave ==
    /\ psess \in {"Connected", "Draining"}
    /\ psess' = IF psess = "Connected" THEN "Draining" ELSE "Closed"
    /\ UNCHANGED <<ConfigLoaded, procVars, cfgVars, optVars, pktQ, nextPkt, egress, emitted, outcome>>

NextPump ==
    \/ StackEmit
    \/ EgressRead
    \/ EgressSend
    \/ EgressStop
    \/ PumpSessionLeave

SpecPump == InitPump /\ [][NextPump]_vars

----------------------------------------------------------------------------
(* The configuration store: SaveConfig, LoadConfig and what surrounds them *)

BaseString == <<"a">>

BaseDNS == [nil |-> FALSE, items |-> <<BaseString>>]

OneSecond == 1000000000

IntVals == {0 - 1, 0, 443, 65536}

DurVals == {0, 1, OneSecond, 2 * OneSecond}

ListVals ==
    { NilSlice,
      [nil |-> FALSE, items |-> <<>>],
      BaseDNS,
      [nil |-> FALSE, items |-> << <<"<">>, <<>> >>] }

\* A configuration with neighbouring fields holding different values.
MkConfig(s, u, i, d, b, l) ==
    [PrivateKey |-> s, EndpointV4 |-> u, EndpointV6 |-> s, EndpointPubKey |-> u,
     License |-> s, ID |-> u, AccessToken |-> s, IPv4 |-> u, IPv6 |-> s,
     Socks |-> [BindAddress |-> s, Port |-> u, Username |-> s, Password |-> u],
     HTTP |-> [BindAddress |-> u, Port |-> s, Username |-> u, Password |-> s],
     Tunnel |-> [ConnectPort |-> i, DNS |-> l, DNSTimeout |-> d, UseIPv6 |-> b,
                 NoTunnelIPv4 |-> ~b, NoTunnelIPv6 |-> b, SNIAddress |-> s,
                 KeepalivePeriod |-> d + 1, MTU |-> i + 1,
                 InitialPacketSize |-> 1242, ReconnectDelay |-> d + 2,
                 ConnectionTimeout |-> d + 3, IdleTimeout |-> d + 4]]

BaseConfig == MkConfig(BaseString, <<>>, 443, OneSecond, TRUE, BaseDNS)

\* The configurations a run may be asked to store.
Configs ==
    {MkConfig(s, <<>>, 443, OneSecond, TRUE, BaseDNS) : s \in StringVals}
    \cup {MkConfig(BaseString, BaseString, i, OneSecond, FALSE, BaseDNS) : i \in IntVals}
    \cup {MkConfig(BaseString, <<>>, 443, d, TRUE, BaseDNS) : d \in DurVals}
    \cup {MkConfig(BaseString, <<>>, 443, OneSecond, b, l) : b \in BOOLEAN, l \in ListVals}

ValidString(s) == \A i \in 1..Len(s) : s[i] # "BAD"

ValidStruct(fields, x) ==
    \A f \in fields :
        CASE f[3] = "string" -> ValidString(x[f[1]])
          [] f[3] = "strings" ->
               \A i \in 1..Len(x[f[1]].items) : ValidString(x[f[1]].items[i])
          [] f[3] = "uint16" -> x[f[1]] \in 0..65535
          [] OTHER -> TRUE

\* A configuration whose strings are valid UTF-8.
ValidConfig(c) ==
    \A f \in ConfigFields :
        IF f[3] \in StructTypes THEN ValidStruct(SubFields(f[3]), c[f[1]])
        ELSE ValidString(c[f[1]])

\* The duration fields of the tunnel configuration, by json tag.
DurationKeys == {"dns_timeout", "idle_timeout", "keepalive_period", "reconnect_delay"}

\* Duration strings of a hand-written file.
DurStrings == { <<"1", "s">>, <<"2", "s">>, <<"1", "m", "s">> }

\* {"tunnel": {key: jv}}
TunnelFile(key, jv) ==
    [kind |-> "doc",
     obj |-> [k \in {"tunnel"} |-> [t |-> "obj", v |-> [k2 \in {key} |-> jv]]]]

\* Files written by hand: one duration field, as integer nanoseconds or as a
\* duration string; a file that is no JSON; no file.
HandFiles ==
    {TunnelFile(key, JNum(FormatInt(d))) : key \in DurationKeys, d \in DurVals}
    \cup {TunnelFile(key, JStr(s)) : key \in DurationKeys, s \in DurStrings}
    \cup {MalformedFile, NoFile}

InitConfig ==
    /\ PumpIdle
    /\ OptIdle
    /\ ProcAtStart
    /\ env = [entry |-> "socks", socksEnabled |-> FALSE, httpEnabled |-> FALSE,
              privKeyOk |-> TRUE, pubKeyOk |-> TRUE,
              noTunnelIPv4 |-> FALSE, noTunnelIPv6 |-> FALSE,
              reconnectDelay |-> DefaultReconnectDelay]
    /\ ConfigLoaded = FALSE
    /\ AppConfig = ZeroConfig
    /\ disk = NoFile
    /\ \/ given \in Configs /\ hand = NoFile
       \/ given = BaseConfig /\ hand \in HandFiles
    /\ loadErr = "none"
    /\ lastOp = "none"
    /\ savedFrom = NotSaved
    /\ cleared = FALSE
    /\ loadedOk = FALSE

\* AppConfig = expected
SetConfig ==
    /\ AppConfig' = given
    /\ lastOp' = "set"
    /\ cleared' = FALSE
    /\ UNCHANGED <<ConfigLoaded, procVars, pumpVars, optVars, disk, given, hand, loadErr, savedFrom,
                   loadedOk>>

\* AppConfig = Config{}; ConfigLoaded = false
ClearConfig ==
    /\ AppConfig' = ZeroConfig
    /\ ConfigLoaded' = FALSE
    /\ lastOp' = "clear"
    /\ cleared' = TRUE
    /\ UNCHANGED <<procVars, pumpVars, optVars, disk, given, hand, loadErr, savedFrom, loadedOk>>

\* The file is written by hand, or removed.
WriteFile ==
    /\ disk' = hand
    /\ savedFrom' = NotSaved
    /\ lastOp' = "write"
    /\ UNCHANGED <<ConfigLoaded, procVars, pumpVars, optVars, AppConfig, given, hand, loadErr, cleared,
                   loadedOk>>

\* (*Config).SaveConfig(configPath)
SaveConfig ==
    /\ \E created \in BOOLEAN :
         IF created
           THEN /\ disk' = [kind |-> "doc", obj |-> EncodeConfig(AppConfig)]
                /\ savedFrom' = [has |-> TRUE, cfg |-> AppConfig]
                /\ cleared' = FALSE
                /\ loadErr' = "none"
           ELSE /\ loadErr' = "create"
                /\ UNCHANGED <<disk, savedFrom, cleared>>
    /\ lastOp' = "save"
    /\ UNCHANGED <<ConfigLoaded, procVars, pumpVars, optVars, AppConfig, given, hand, loadedOk>>

\* ConfigLoaded assigned from the call's result (a failing call clears it).
LoadedAfter_Assigned(err) == err = "none"

\* ConfigLoaded after a LoadConfig call: `ConfigLoaded = true` is reached
\* only past both error returns.
LoadedAfter(err) == IF err = "none" THEN TRUE ELSE ConfigLoaded

\* LoadConfig(configPath)
LoadConfig ==
    /\ IF disk.kind = "missing"
         THEN /\ loadErr' = "open"
              /\ UNCHANGED AppConfig
       ELSE IF disk.kind = "malformed"
         THEN /\ loadErr' = "decode"
              /\ UNCHANGED AppConfig
       ELSE LET r == DecodeConfig(disk.obj, AppConfig) IN
              /\ AppConfig' = r.v
              /\ loadErr' = IF r.ok THEN "none" ELSE "decode"
    /\ ConfigLoaded' = LoadedAfter(loadErr')
    /\ loadedOk' = (loadedOk \/ loadErr' = "none")
    /\ lastOp' = "load"
    /\ UNCHANGED <<procVars, pumpVars, optVars, disk, given, hand, savedFrom, cleared>>

NextConfig ==
    \/ SetConfig
    \/ ClearConfig
    \/ WriteFile
    \/ SaveConfig
    \/ LoadConfig

SpecConfig == InitConfig /\ [][NextConfig]_vars

\* The operations of the program on the configuration.  The statement of the
\* test that assigns ConfigLoaded = false is not one of them: the package and
\* the commands assign ConfigLoaded in LoadConfig only.
NextLoad ==
    \/ SetConfig
    \/ WriteFile
    \/ SaveConfig
    \/ LoadConfig

SpecLoad == InitConfig /\ [][NextLoad]_vars

-----------------------------------------------------------------------------
(* The settings of `usque socks`: flags and configuration fields *)

\* The settings that have both a flag and a configuration field.
SocksSettings == {"bind", "port", "username", "password"}

TunnelSettings == {"connect-port", "dns", "mtu", "reconnect-delay"}

Settings == SocksSettings \cup TunnelSettings

DefaultDNS == <<"9.9.9.9", "149.112.112.112", "2620:fe::fe", "2620:fe::9">>

\* The default each flag is registered with.
FlagDefault(s) ==
    CASE s = "bind" -> "0.0.0.0"
      [] s = "port" -> "1080"
      [] s = "username" -> ""
      [] s = "password" -> ""
      [] s = "connect-port" -> 443
      [] s = "dns" -> DefaultDNS
      [] s = "mtu" -> Mtu
      [] s = "reconnect-delay" -> DefaultReconnectDelay

\* Values a command line gives a flag explicitly: its default again, or another.
FlagValues(s) ==
    CASE s = "bind" -> {"0.0.0.0", "127.0.0.1"}
      [] s = "port" -> {"1080", "1081"}
      [] s = "username" -> {"", "alice"}
      [] s = "password" -> {"", "secret"}
      [] s = "connect-port" -> {443, 4443}
      [] s = "dns" -> {DefaultDNS, <<"1.1.1.1">>}
      [] s = "mtu" -> {Mtu, 1400}
      [] s = "reconnect-delay" -> {DefaultReconnectDelay, 2}

\* The zero value of the configuration field: the field is not set.
ConfigZero(s) ==
    CASE s \in SocksSettings -> ""
      [] s = "dns" -> <<>>
      [] OTHER -> 0

\* Values of the configuration field: not set, or set.
ConfigValues(s) ==
    {ConfigZero(s)} \cup
    CASE s = "bind" -> {"::1", "127.0.0.1"}
      [] s = "port" -> {"9050", "1081"}
      [] s = "username" -> {"bob", "alice"}
      [] s = "password" -> {"hunter2", "secret"}
      [] s = "connect-port" -> {500, 4443}
      [] s = "dns" -> {<<"8.8.8.8">>, <<"1.1.1.1">>}
      [] s = "mtu" -> {1350, 1400}
      [] s = "reconnect-delay" -> {5, 2}

\* A run's view of one setting: was the flag given (Changed), the flag's
\* value (its default when it was not given), the configuration field.
Options(s) ==
    [name : {s}, changed : {FALSE}, flag : {FlagDefault(s)}, cfg : ConfigValues(s)]
    \cup
    [name : {s}, changed : {TRUE}, flag : FlagValues(s), cfg : ConfigValues(s)]

\* Run after the configuration check, the keys and the certificate.
ProcInRun ==
    /\ env = [entry |-> "socks", socksEnabled |-> FALSE, httpEnabled |-> FALSE,
              privKeyOk |-> TRUE, pubKeyOk |-> TRUE,
              noTunnelIPv4 |-> FALSE, noTunnelIPv6 |-> FALSE,
              reconnectDelay |-> DefaultReconnectDelay]
    /\ mainPc = "wait"
    /\ pc = [s \in Services |-> IF s = socksCmd THEN "addrs" ELSE "off"]
    /\ failure = [s \in Services |-> "none"]
    /\ localAddresses = [s \in Services |-> {}]
    /\ stack = [s \in Services |-> NoStack]
    /\ nCreated = [s \in Services |-> 0]
    /\ conns = [s \in Services |-> 0]
    /\ supDev = [s \in Services |-> [svc |-> "none", gen |-> 0]]
    /\ sup = [s \in Services |-> "none"]
    /\ sess = [s \in Services |-> NoSession]
    /\ waited = [s \in Services |-> 0]

InitOptions ==
    /\ ConfigLoaded = TRUE
    /\ PumpIdle
    /\ CfgIdle
    /\ ProcInRun
    /\ \E s \in Settings : opt \in Options(s)
    /\ effective = Unresolved

\* bindAddress: the flag, replaced by Socks.BindAddress when the flag was not
\* given and the field is not empty.
bindAddress(o) ==
    IF ConfigLoaded /\ ~o.changed /\ o.cfg # "" THEN o.cfg ELSE o.flag

\* port: the flag, replaced by Socks.Port in the same way.
port(o) ==
    IF ConfigLoaded /\ ~o.changed /\ o.cfg # "" THEN o.cfg ELSE o.flag

\* username: Socks.Username is written into the flag when the flag was not
\* given and the field is not empty; the flag is read back later.
username(o) ==
    LET u == IF ConfigLoaded /\ ~o.changed /\ o.cfg # "" THEN o.cfg ELSE o.flag
    IN  IF u # "" THEN u ELSE ""

\* password: as username.
password(o) ==
    LET p == IF ConfigLoaded /\ ~o.changed /\ o.cfg # "" THEN o.cfg ELSE o.flag
    IN  IF p # "" THEN p ELSE ""

\* connectPort: cmd.Flags().GetInt("connect-port"); Tunnel.ConnectPort is not read.
connectPort(o) == o.flag

\* dnsServers: cmd.Flags().GetStringArray("dns"); Tunnel.DNS is not read.
dnsServers(o) == o.flag

\* mtu: cmd.Flags().GetInt("mtu"); Tunnel.MTU is not read.
mtu(o) == o.flag

\* reconnectDelay: cmd.Flags().GetDuration("reconnect-delay");
\* Tunnel.ReconnectDelay is not read.
reconnectDelay(o) == o.flag

\* Lines 74-103 of Run: bind, port, username, password, connect-port.
RunProxyOptions ==
    /\ pc[socksCmd] = "addrs"
    /\ ~effective.done
    /\ opt.name \in SocksSettings \cup {"connect-port"}
    /\ effective' = [done |-> TRUE,
                     v |-> CASE opt.name = "bind" -> bindAddress(opt)
                             [] opt.name = "port" -> port(opt)
                             [] opt.name = "username" -> username(opt)
                             [] opt.name = "password" -> password(opt)
                             [] opt.name = "connect-port" -> connectPort(opt)]
    /\ UNCHANGED <<ConfigLoaded, procVars, pumpVars, cfgVars, opt>>

\* Lines 148-198 of Run: dns, mtu, reconnect-delay.
RunTunnelOptions ==
    /\ pc[socksCmd] = "addrs"
    /\ ~effective.done
    /\ opt.name \in {"dns", "mtu", "reconnect-delay"}
    /\ effective' = [done |-> TRUE,
                     v |-> CASE opt.name = "dns" -> dnsServers(opt)
                             [] opt.name = "mtu" -> mtu(opt)
                             [] opt.name = "reconnect-delay" -> reconnectDelay(opt)]
    /\ UNCHANGED <<ConfigLoaded, procVars, pumpVars, cfgVars, opt>>

NextOptions ==
    \/ RunProxyOptions
    \/ RunTunnelOptions

SpecOptions == InitOptions /\ [][NextOptions]_vars

----------------------------------------------------------------------------
(* Claims *)

\* C1: in every reachable state at most one tunnel Session is active
\* (Dialing, Connected or Draining) in the whole process, also when the root
\* command starts several enabled services.
C1_AtMostOneActiveSession ==
    Cardinality({s \in Services : Active(s)}) <= 1

\* C2: the stack is created exactly once per service run and before the
\* supervisor starts; the supervisor and every Session it produces use that
\* stack; a step of the supervisor or of its Session (a closure, a reconnect)
\* leaves the stack (identity, inner addresses, open/closed) and the set of
\* socket-face connections unchanged.
C2_StackCreatedOnceAndShared ==
    /\ [](\A s \in Services :
            /\ nCreated[s] <= 1
            /\ sup[s] # "none" =>
                  /\ stack[s].created /\ nCreated[s] = 1
                  /\ supDev[s] = stack[s].id
            /\ sess[s].state # "None" => sess[s].dev = stack[s].id)
    /\ [][\A s \in Services :
            (sess'[s] # sess[s] \/ sup'[s] # sup[s]) =>
                /\ stack'[s] = stack[s]
                /\ conns'[s] = conns[s]]_vars

\* C2 witness: a Session established by a reconnect (the supervisor has slept)
\* while a socket-face connection is open.
C2_Witness ==
    \E s \in Services :
        /\ sess[s].state = "Connected" /\ waited[s] >= 1
        /\ conns[s] > 0 /\ sess[s].dev = stack[s].id

\* C3: a fatal closure (TLS pin mismatch, authentication failure) happens
\* only to a Session that is Dialing, which goes straight to Closed; from then
\* on the Session record never changes (no further attempt) and the supervisor
\* only moves to exited, which it eventually does while the process lives.
C3_FatalEndsSupervisor ==
    /\ [][\A s \in Services :
            /\ (sess'[s].reason \in {"pin", "auth"}
                    /\ sess[s].reason \notin {"pin", "auth"})
                 => sess[s].state = "Dialing" /\ sess'[s].state = "Closed"
            /\ sess[s].reason \in {"pin", "auth"}
                 => /\ sess'[s] = sess[s]
                    /\ sup'[s] \in {sup[s], "exited"}]_vars
    /\ \A s \in Services :
          (sess[s].reason \in {"pin", "auth"}) ~> (sup[s] = "exited" \/ ~alive)

\* C3 witness: the supervisor has exited after a TLS pin mismatch.
C3_Witness ==
    \E s \in Services :
        sess[s].reason = "pin" /\ sess[s].state = "Closed" /\ sup[s] = "exited"

\* C4: a new Session is started after a closure only when the closure was
\* retryable and the reconnect delay given on the command line has been
\* slept in full; and after every retryable closure (the context is never
\* cancelled) a new Session is eventually started while the process lives.
C4_ReconnectAfterDelay ==
    /\ [][\A s \in Services :
            (sess[s].state = "Closed" /\ sess'[s].state = "Dialing") =>
                /\ sess[s].reason \in {"idle", "transport", "refused"}
                /\ waited[s] >= env.reconnectDelay]_vars
    /\ \A s \in Services :
          (sess[s].state = "Closed"
              /\ sess[s].reason \in {"idle", "transport", "refused"}
              /\ ~CtxDone(s))
          ~> (sess[s].state = "Dialing" \/ ~alive)

\* C4 witness: a Session dialled after an idle-timeout closure and the longest
\* delay of the model.
C4_Witness ==
    \E s \in Services :
        /\ sess[s].state = "Dialing"
        /\ env.reconnectDelay = MaxDelay
        /\ waited[s] = MaxDelay

\* C5: the frontend's shutdown path closes the stack only after the
\* supervisor's context was cancelled, its Session has reached Closed and its
\* loop has exited.
C5_StackClosedAfterSupervisorExit ==
    \A s \in Services :
        stack[s].closed =>
            /\ CtxDone(s)
            /\ ~Active(s)
            /\ sup[s] = "exited"

\* The packet of number p has been through a whole iteration of the pump.
Handled(p) == outcome[p] \in {"sent", "oversize", "congested", "closed"}

\* C6 as stated: never two datagrams for one packet, and whenever the pump is
\* at its next iteration after packet p with the Session still Connected,
\* exactly one datagram containing p has been emitted.
C6_ExactlyOneDatagramOrLeft ==
    \A p \in Packets :
        /\ emitted[p] <= 1
        /\ (Handled(p) /\ egress.last = p /\ egress.pc = "read"
                /\ psess = "Connected") => emitted[p] = 1

\* C6 amended: never two datagrams for one packet; a handled packet has its
\* one datagram exactly when the send succeeded; when the Session is still
\* Connected at the pump's next iteration, the packet either has its one
\* datagram or was dropped as longer than the MTU or on congestion; a packet
\* is dropped as oversize exactly when it is longer than the MTU; a send that
\* failed because the Session is closing stops the pump.
C6_AtMostOneDatagram ==
    \A p \in Packets :
        /\ emitted[p] <= 1
        /\ Handled(p) => (emitted[p] = 1 <=> outcome[p] = "sent")
        /\ ~Handled(p) => emitted[p] = 0
        /\ (Handled(p) /\ egress.last = p /\ egress.pc = "read"
                /\ psess = "Connected")
             => (emitted[p] = 1 \/ outcome[p] \in {"oversize", "congested"})
        /\ (outcome[p] = "closed" /\ egress.last = p)
             => (egress.pc = "stopped" /\ psess # "Connected")

\* C6 witness: one packet sent as a datagram, a later one dropped on
\* congestion, the Session still Connected and the pump at its next iteration.
C6_Witness ==
    /\ psess = "Connected" /\ egress.pc = "read"
    /\ \E p, q \in Packets :
        /\ p < q /\ egress.last = q
        /\ outcome[p] = "sent" /\ emitted[p] = 1
        /\ outcome[q] = "congested" /\ emitted[q] = 0

\* C7: after LoadConfig has read a file that SaveConfig wrote from a valid
\* configuration C, it has returned no error, ConfigLoaded is true and the
\* in-memory configuration equals C in every field.
C7_SaveLoadRoundTrip ==
    (lastOp = "load" /\ savedFrom.has /\ ValidConfig(savedFrom.cfg)) =>
        /\ loadErr = "none"
        /\ ConfigLoaded
        /\ AppConfig = savedFrom.cfg

\* C7 witness: set C, save, clear, load, for a C whose strings need escaping.
C7_Witness ==
    /\ lastOp = "load" /\ savedFrom.has /\ cleared
    /\ ValidConfig(savedFrom.cfg)
    /\ savedFrom.cfg.PrivateKey = <<"<", "\"">>
    /\ AppConfig = savedFrom.cfg
    /\ ConfigLoaded

\* time.ParseDuration on the strings of DurStrings.
ParseDuration(s) ==
    LET n == Len(s)
    IN  IF n >= 3 /\ SubSeq(s, n - 1, n) = <<"m", "s">>
          THEN ParseNat(SubSeq(s, 1, n - 2)) * 1000000
          ELSE ParseNat(SubSeq(s, 1, n - 1)) * OneSecond

GoName(key) == (CHOOSE f \in TunnelConfigFields : f[2] = key)[1]

\* C8: after LoadConfig has read a file holding one duration field, as
\* integer nanoseconds or as a duration string, it has returned no error and
\* the field holds the duration's nanoseconds, the same for both forms.
C8_DurationFormsLoad ==
    \A key \in DurationKeys :
        /\ \A d \in DurVals :
             (lastOp = "load" /\ disk = TunnelFile(key, JNum(FormatInt(d)))) =>
                 loadErr = "none" /\ AppConfig.Tunnel[GoName(key)] = d
        /\ \A s \in DurStrings :
             (lastOp = "load" /\ disk = TunnelFile(key, JStr(s))) =>
                 loadErr = "none" /\ AppConfig.Tunnel[GoName(key)] = ParseDuration(s)

\* C9: with both inner address families disabled no stack is created, no
\* supervisor is started and no listener is opened.
C9_NoAddressFamilyRejected ==
    (env.noTunnelIPv4 /\ env.noTunnelIPv6) =>
        \A s \in Services :
            /\ ~stack[s].created
            /\ sup[s] = "none"
            /\ pc[s] \notin {"maintain", "serve", "listening"}
            /\ failure[s] # "listen"

\* C10: when the configuration is not loaded, a key does not parse, or
\* certificate / TLS-config generation failed, no stack is created, no
\* supervisor is started, no Session is attempted and no listener is opened.
C10_InvalidStartupStartsNothing ==
    \A s \in Services :
        (\/ ~ConfigLoaded
         \/ ~env.privKeyOk
         \/ ~env.pubKeyOk
         \/ failure[s] \in {"cert", "tls"}) =>
            /\ ~stack[s].created /\ nCreated[s] = 0
            /\ sup[s] = "none"
            /\ sess[s].state = "None"
            /\ pc[s] \notin {"maintain", "serve", "listening"}
            /\ failure[s] # "listen"

\* C10 witness: a Run that returned on a TLS-config failure, after the checks
\* of the configuration and of both keys had passed.
C10_Witness ==
    \E s \in Services :
        pc[s] = "returned" /\ failure[s] = "tls" /\ mainPc = "exited"

\* C11: for every setting with both a flag and a configuration field, the
\* value Run uses is the flag's value when the flag was given, otherwise the
\* configuration field when it is set, otherwise the flag's default.
C11_FlagConfigDefault ==
    effective.done =>
        effective.v =
            IF opt.changed THEN opt.flag
            ELSE IF opt.cfg # ConfigZero(opt.name) THEN opt.cfg
            ELSE FlagDefault(opt.name)

\* C12: after any sequence of LoadConfig calls ConfigLoaded is true exactly
\* when some earlier call returned no error; a call that returns an error
\* leaves ConfigLoaded as it was, and no operation resets it to false.
C12_LoadedIffSomeLoadSucceeded ==
    /\ ConfigLoaded <=> loadedOk
    /\ (lastOp = "load" /\ loadErr # "none" /\ loadedOk) => ConfigLoaded

\* C12 witness: a LoadConfig call has failed after an earlier one succeeded.
C12_Witness ==
    /\ lastOp = "load"
    /\ loadErr \in {"open", "decode"}
    /\ loadedOk
    /\ ConfigLoaded

====
